---- MODULE Spec2Model ----
(***************************************************************************)
(* Model of src/src/debruijn_msa.py: class deBruijnMultiSeqs.               *)
(* Strings are sequences of one-character strings; Python lists are        *)
(* sequences, Python dicts and 0-indexed lists keyed by a sequence index   *)
(* are functions on 0..n-1.                                                *)
(***************************************************************************)
EXTENDS Integers, Sequences, FiniteSets, TLC

\* ------------------------------------------------------------- bounds
MaxK == 2
MaxLen == 4
MaxSeqs == 3
MaxTotalLen == 5
MaxAlnLen == 4
Alphabet == {"A", "B", "C"}

VARIABLES
    k,                   \* self.k
    sequences,           \* self.sequences (0-indexed)
    num_seq,             \* self.num_seq
    id_count,            \* self.id_count
    nodes,               \* self.nodes
    exist_kmer,          \* self.exist_kmer
    seq_node_idx,        \* self.seq_node_idx
    merge_node_idx,      \* self.merge_node_idx
    merge_node_idx_temp, \* self.merge_node_idx_temp
    seq_last_kmer_idx,   \* self.seq_last_kmer_idx
    expansion,           \* self.expansion
    pc,                  \* position of the constructor
    kmer_seqs,           \* add_debruijn: kmer_seqs
    duplicate_kmer,      \* add_debruijn: duplicate_kmer
    seq_idx,             \* add_debruijn: i / _get_seq_kmer_indices: seq_idx
    pos,                 \* _get_seq_kmer_indices: position of the for loop
    edge_kmer,           \* _get_seq_kmer_indices: edge_kmer
    prev_idx,            \* _get_seq_kmer_indices: prev_idx
    current_idx,         \* _get_seq_kmer_indices: current_idx
    node_indices,        \* _get_seq_kmer_indices: node_indices
    multiple_duplicate,  \* _get_seq_kmer_indices: multiple_duplicate
    aln                  \* the last call of bubble_aln and what it returned

vars == << k, sequences, num_seq, id_count, nodes, exist_kmer, seq_node_idx,
           merge_node_idx, merge_node_idx_temp, seq_last_kmer_idx, expansion,
           pc, kmer_seqs, duplicate_kmer, seq_idx, pos, edge_kmer, prev_idx,
           current_idx, node_indices, multiple_duplicate, aln >>

graph == << id_count, nodes, exist_kmer, merge_node_idx_temp >>
inputs == << k, sequences, num_seq >>

\* ------------------------------------------------------------- helpers
EmptyMap == [x \in {} |-> 0]
NoIdx == -2   \* a local that is not bound yet
NoCall == [called |-> FALSE]

Max(a, b) == IF a > b THEN a ELSE b

\* x in list
InList(x, list) == \E p \in 1..Len(list) : list[p] = x

\* the elements of a list, as a set
ListSet(list) == {list[p] : p \in 1..Len(list)}

\* list.append on a 0-indexed list
ListAppend0(list, v) == list @@ (Cardinality(DOMAIN list) :> v)

RECURSIVE Join(_)
\* "".join(list of strings)
Join(list) == IF list = <<>> THEN <<>> ELSE Head(list) \o Join(Tail(list))

RECURSIVE SortedSeq(_)
SortedSeq(S) ==
    IF S = {} THEN <<>>
    ELSE LET m == CHOOSE x \in S : \A y \in S : x <= y
         IN  <<m>> \o SortedSeq(S \ {m})

\* ------------------------------------------------------------- utils
\* get_kmers(sequence, k): the length-k windows, left to right
get_kmers(sequence, kk) ==
    [p \in 1..(Len(sequence) - kk + 1) |-> SubSeq(sequence, p, p + kk - 1)]

\* duplicate_kmers(kmer_seqs): k-mers occurring twice within one sequence
duplicate_kmers(ks) ==
    {km \in UNION {ListSet(ks[s]) : s \in DOMAIN ks} :
        \E s \in DOMAIN ks : \E p, q \in 1..Len(ks[s]) :
            p # q /\ ks[s][p] = km /\ ks[s][q] = km}

\* list_intersection(a, b)
list_intersection(a, b) == SelectSeq(a, LAMBDA x : InList(x, b))

\* read_nucleotide_from_kmers(seq, k): first character of every k-window
read_nucleotide_from_kmers(seq, kk) ==
    [n \in 1..(Len(seq) \div kk) |-> seq[(n - 1) * kk + 1]]

\* Node(id, kmer, node_type)
Node(id, kmer, node_type) ==
    [id |-> id, kmer |-> kmer, node_type |-> node_type, count |-> 1,
     out_edges |-> EmptyMap]

\* Node.add_out_edge(in_id, seq_idx, duplicate_str, multiple_duplicate)
add_out_edge(node, in_id, s, duplicate_str, multi) ==
    [node EXCEPT !.out_edges =
        (s :> [in_id |-> in_id, duplicate_str |-> duplicate_str,
               multiple_duplicate |-> multi]) @@ @]

\* ------------------------------------------------------------- _add_node
\* an _add_node that never finds the k-mer
InternedNever(kmer) == FALSE

\* kmer in self.exist_kmer
Interned(kmer) == kmer \in DOMAIN exist_kmer

\* an _add_node that interns whatever the node type
InternAlways(kmer, node_type) == (kmer :> id_count) @@ exist_kmer

\* if node_type is NodeType.middle: self.exist_kmer[kmer] = self.id_count
InternNew(kmer, node_type) ==
    IF node_type = "middle" THEN (kmer :> id_count) @@ exist_kmer ELSE exist_kmer

\* _add_node(kmer, node_type): the returned id and the fields it leaves
add_node(kmer, node_type) ==
    IF Interned(kmer)
    THEN LET exist_node_id == exist_kmer[kmer] IN
         [ret |-> exist_node_id,
          nodes |-> [nodes EXCEPT ![exist_node_id].count = @ + 1],
          exist_kmer |-> exist_kmer,
          id_count |-> id_count,
          temp |-> Append(merge_node_idx_temp, exist_node_id)]
    ELSE [ret |-> id_count,
          nodes |-> (id_count :> Node(id_count, kmer, node_type)) @@ nodes,
          exist_kmer |-> InternNew(kmer, node_type),
          id_count |-> id_count + 1,
          temp |-> merge_node_idx_temp]

\* _add_edge(out_id, in_id, seq_idx, duplicate_str, multiple_duplicate) on nds
add_edge(nds, out_id, in_id, s, duplicate_str, multi) ==
    [nds EXCEPT ![out_id] = add_out_edge(@, in_id, s, duplicate_str, multi)]

\* ------------------------------------------------------------- inputs
\* the i-th piece (0-indexed) of w cut at the sorted boundaries b
Piece(w, b, i) == SubSeq(w, b[i + 1] + 1, b[i + 2])

\* __init__, before add_debruijn: every field empty, the inputs chosen
Init ==
    /\ \E kk \in 1..MaxK, t \in 1..MaxTotalLen :
       \E w \in [1..t -> Alphabet], cuts \in SUBSET (1..(t - 1)) :
          LET b == SortedSeq(cuts \cup {0, t})
              n == Len(b) - 1
          IN  /\ n <= MaxSeqs
              /\ \A i \in 0..(n - 1) :
                    /\ b[i + 2] - b[i + 1] >= kk
                    /\ b[i + 2] - b[i + 1] <= MaxLen
              /\ k = kk
              /\ num_seq = n
              /\ sequences = [i \in 0..(n - 1) |-> Piece(w, b, i)]
    /\ id_count = 0
    /\ nodes = EmptyMap
    /\ exist_kmer = EmptyMap
    /\ seq_node_idx = EmptyMap
    /\ merge_node_idx = <<>>
    /\ merge_node_idx_temp = <<>>
    /\ seq_last_kmer_idx = EmptyMap
    /\ expansion = EmptyMap
    /\ pc = "add_debruijn"
    /\ kmer_seqs = EmptyMap
    /\ duplicate_kmer = {}
    /\ seq_idx = 0
    /\ pos = 1
    /\ edge_kmer = <<>>
    /\ prev_idx = NoIdx
    /\ current_idx = NoIdx
    /\ node_indices = <<>>
    /\ multiple_duplicate = FALSE
    /\ aln = NoCall

\* ------------------------------------------------------------- add_debruijn
\* add_debruijn, up to its loop: the k-mers and the duplicate set
AddDebruijn ==
    /\ pc = "add_debruijn"
    /\ kmer_seqs' = [i \in 0..(num_seq - 1) |-> get_kmers(sequences[i], k)]
    /\ duplicate_kmer' = duplicate_kmers(kmer_seqs')
    /\ seq_idx' = 0
    /\ pc' = "begin"
    /\ UNCHANGED << inputs, graph, seq_node_idx, merge_node_idx,
                    seq_last_kmer_idx, expansion, pos, edge_kmer, prev_idx,
                    current_idx, node_indices, multiple_duplicate, aln >>

\* _get_seq_kmer_indices, up to its loop: the start sentinel
BeginSeq ==
    /\ pc = "begin"
    /\ LET r == add_node(<<>>, "start") IN
          /\ nodes' = r.nodes
          /\ exist_kmer' = r.exist_kmer
          /\ id_count' = r.id_count
          /\ merge_node_idx_temp' = r.temp
          /\ prev_idx' = r.ret
          /\ node_indices' = <<r.ret>>
    /\ edge_kmer' = <<>>
    /\ multiple_duplicate' = FALSE
    /\ current_idx' = NoIdx
    /\ pos' = 1
    /\ pc' = "loop"
    /\ UNCHANGED << inputs, seq_node_idx, merge_node_idx, seq_last_kmer_idx,
                    expansion, kmer_seqs, duplicate_kmer, seq_idx, aln >>

\* a loop that never takes a k-mer for a duplicate
IsDuplicateNever(kmer) == FALSE

\* kmer in duplicate_kmer
IsDuplicate(kmer) == kmer \in duplicate_kmer

\* one iteration of the loop: the k-mer is a duplicate and goes to the buffer
LoopDuplicate ==
    /\ pc = "loop"
    /\ pos <= Len(kmer_seqs[seq_idx])
    /\ LET kmer == kmer_seqs[seq_idx][pos] IN
          /\ IsDuplicate(kmer)
          /\ multiple_duplicate' = IF edge_kmer # <<>> THEN TRUE ELSE multiple_duplicate
          /\ edge_kmer' = Append(edge_kmer, kmer)
    /\ current_idx' = prev_idx
    /\ prev_idx' = current_idx'
    /\ pos' = pos + 1
    /\ UNCHANGED << inputs, graph, seq_node_idx, merge_node_idx,
                    seq_last_kmer_idx, expansion, pc, kmer_seqs, duplicate_kmer,
                    seq_idx, node_indices, aln >>

\* one iteration of the loop: a node, reached by an edge that takes the buffer
LoopFlushEdge ==
    /\ pc = "loop"
    /\ pos <= Len(kmer_seqs[seq_idx])
    /\ LET kmer == kmer_seqs[seq_idx][pos]
           r == add_node(kmer, "middle")
       IN /\ ~IsDuplicate(kmer)
          /\ Len(edge_kmer) > 0
          /\ current_idx' = r.ret
          /\ node_indices' = Append(node_indices, r.ret)
          /\ nodes' = add_edge(r.nodes, prev_idx, r.ret, seq_idx,
                               Join(edge_kmer), multiple_duplicate)
          /\ exist_kmer' = r.exist_kmer
          /\ id_count' = r.id_count
          /\ merge_node_idx_temp' = r.temp
    /\ edge_kmer' = <<>>
    /\ prev_idx' = current_idx'
    /\ pos' = pos + 1
    /\ UNCHANGED << inputs, seq_node_idx, merge_node_idx, seq_last_kmer_idx,
                    expansion, pc, kmer_seqs, duplicate_kmer, seq_idx,
                    multiple_duplicate, aln >>

\* one iteration of the loop: a node, reached by a plain edge
LoopPlain ==
    /\ pc = "loop"
    /\ pos <= Len(kmer_seqs[seq_idx])
    /\ LET kmer == kmer_seqs[seq_idx][pos]
           r == add_node(kmer, "middle")
       IN /\ ~IsDuplicate(kmer)
          /\ ~(Len(edge_kmer) > 0)
          /\ current_idx' = r.ret
          /\ node_indices' = Append(node_indices, r.ret)
          /\ nodes' = add_edge(r.nodes, prev_idx, r.ret, seq_idx, <<>>, FALSE)
          /\ exist_kmer' = r.exist_kmer
          /\ id_count' = r.id_count
          /\ merge_node_idx_temp' = r.temp
    /\ prev_idx' = current_idx'
    /\ pos' = pos + 1
    /\ UNCHANGED << inputs, seq_node_idx, merge_node_idx, seq_last_kmer_idx,
                    expansion, pc, kmer_seqs, duplicate_kmer, seq_idx,
                    edge_kmer, multiple_duplicate, aln >>

\* an end of sequence that records the node whatever the buffer holds
LastKmerIdxAlways(buffer, idx) == idx

\* what _get_seq_kmer_indices appends to seq_last_kmer_idx
LastKmerIdx(buffer, idx) == IF buffer = <<>> THEN idx ELSE -1

\* the update of merge_node_idx at the end of _get_seq_kmer_indices
MergeUpdate(merge, temp) ==
    IF merge = <<>> THEN temp ELSE list_intersection(merge, temp)

\* _get_seq_kmer_indices after its loop, and the assignment in add_debruijn
EndSeq ==
    /\ pc = "loop"
    /\ pos > Len(kmer_seqs[seq_idx])
    /\ current_idx # NoIdx
    /\ seq_last_kmer_idx' = ListAppend0(seq_last_kmer_idx, LastKmerIdx(edge_kmer, current_idx))
    /\ LET r == add_node(<<>>, "end") IN
          /\ nodes' = add_edge(r.nodes, current_idx, r.ret, seq_idx,
                               Join(edge_kmer), multiple_duplicate)
          /\ exist_kmer' = r.exist_kmer
          /\ id_count' = r.id_count
          /\ merge_node_idx' = MergeUpdate(merge_node_idx, r.temp)
          /\ merge_node_idx_temp' = <<>>
          /\ node_indices' = Append(node_indices, r.ret)
          /\ seq_node_idx' = (seq_idx :> node_indices') @@ seq_node_idx
    /\ seq_idx' = seq_idx + 1
    /\ pc' = IF seq_idx' < num_seq THEN "begin" ELSE "extract"
    /\ UNCHANGED << inputs, expansion, kmer_seqs, duplicate_kmer, pos,
                    edge_kmer, prev_idx, current_idx, multiple_duplicate, aln >>

\* ------------------------------------------------------------- extract_bubble
\* an entry of an expansion: a bubble (a list of ids) or one merge-node id
ListEntry(ids) == [is_list |-> TRUE, ids |-> ids]
IntEntry(id) == [is_list |-> FALSE, ids |-> <<id>>]

RECURSIVE BubblesNoReset(_, _, _, _)
\* an extract_bubble that does not empty the bubble at a merge node
BubblesNoReset(path, p, bubble, bubbles) ==
    IF p > Len(path) THEN Append(bubbles, [is_list |-> TRUE, ids |-> bubble])
    ELSE IF ~InList(path[p], merge_node_idx)
         THEN BubblesNoReset(path, p + 1, Append(bubble, path[p]), bubbles)
         ELSE BubblesNoReset(path, p + 1, bubble,
                  bubbles \o <<[is_list |-> TRUE, ids |-> bubble],
                               [is_list |-> FALSE, ids |-> <<path[p]>>]>>)

RECURSIVE Bubbles(_, _, _, _)
\* the inner loop of extract_bubble over path from position p
Bubbles(path, p, bubble, bubbles) ==
    IF p > Len(path) THEN Append(bubbles, ListEntry(bubble))
    ELSE IF ~InList(path[p], merge_node_idx)
         THEN Bubbles(path, p + 1, Append(bubble, path[p]), bubbles)
         ELSE Bubbles(path, p + 1, <<>>,
                      bubbles \o <<ListEntry(bubble), IntEntry(path[p])>>)

\* extract_bubble()
extract_bubble == [s \in 0..(num_seq - 1) |-> Bubbles(seq_node_idx[s], 1, <<>>, <<>>)]

\* self.expansion = self.extract_bubble()
ExtractBubble ==
    /\ pc = "extract"
    /\ expansion' = extract_bubble
    /\ pc' = "done"
    /\ UNCHANGED << inputs, graph, seq_node_idx, merge_node_idx,
                    seq_last_kmer_idx, kmer_seqs, duplicate_kmer, seq_idx, pos,
                    edge_kmer, prev_idx, current_idx, node_indices,
                    multiple_duplicate, aln >>

\* ------------------------------------------------------------- reconstruction
\* a read_from_kmer that reads one character of every k-mer
read_from_kmer_first(node_idx, s) == <<Head(nodes[node_idx].kmer)>>

\* read_from_kmer(node_idx, seq_idx)
read_from_kmer(node_idx, s) ==
    LET kmer == nodes[node_idx].kmer IN
    IF node_idx = seq_last_kmer_idx[s] THEN kmer ELSE <<Head(kmer)>>

\* edge_kmer[: -self.k]
DropLastK(str) == SubSeq(str, 1, Max(Len(str) - k, 0))
\* edge_kmer[-self.k :]
LastK(str) == SubSeq(str, Max(Len(str) - k, 0) + 1, Len(str))

\* the body of the loop of extract_bubble_seq: what node_idx contributes
NodeRead(node_idx, s) ==
    IF nodes[node_idx].node_type \notin {"start", "end"}
    THEN read_from_kmer(node_idx, s) ELSE <<>>

\* the body of the loop of extract_bubble_seq: what the edge to the next node contributes
EdgeRead(node_idx, next_node_idx, s) ==
    LET out_edge == nodes[node_idx].out_edges[s]
        dup == out_edge.duplicate_str
    IN  IF nodes[next_node_idx].node_type = "end"
        THEN IF out_edge.multiple_duplicate
             THEN read_nucleotide_from_kmers(DropLastK(dup), k) \o LastK(dup)
             ELSE dup
        ELSE read_nucleotide_from_kmers(dup, k)

RECURSIVE BubbleSeqFrom(_, _, _)
BubbleSeqFrom(bubble_idx_seq, i, s) ==
    IF i > Len(bubble_idx_seq) - 1 THEN <<>>
    ELSE NodeRead(bubble_idx_seq[i], s)
         \o EdgeRead(bubble_idx_seq[i], bubble_idx_seq[i + 1], s)
         \o BubbleSeqFrom(bubble_idx_seq, i + 1, s)

\* an extract_bubble_seq that also reads the last node of the run
extract_bubble_seq_with_last(bubble_idx_seq, s) ==
    BubbleSeqFrom(bubble_idx_seq, 1, s)
    \o (IF bubble_idx_seq = <<>> THEN <<>>
        ELSE NodeRead(bubble_idx_seq[Len(bubble_idx_seq)], s))

\* extract_bubble_seq(bubble_idx_seq, seq_idx)
extract_bubble_seq(bubble_idx_seq, s) == BubbleSeqFrom(bubble_idx_seq, 1, s)

\* get_merge_edge(seq1_curr_idx, seq2_curr_idx)
get_merge_edge(seq1_curr_idx, seq2_curr_idx) ==
    << read_nucleotide_from_kmers(nodes[seq1_curr_idx].out_edges[0].duplicate_str, k),
       read_nucleotide_from_kmers(nodes[seq2_curr_idx].out_edges[1].duplicate_str, k) >>

\* ------------------------------------------------------------- alignment
Gap == "-"

\* the scoring matrices and gap costs a caller may pass
Matrix(match, mismatch) ==
    [p \in Alphabet \X Alphabet |-> IF p[1] = p[2] THEN match ELSE mismatch]
ScoringMatrices == {Matrix(1, -1), Matrix(-5, -1)}
GapCosts == {<<-2, -1>>, <<-3, -1>>}

\* a lattice entry that no alignment reaches
Dead == [score |-> 0, alns |-> {}]

\* a lattice entry extended by one column that scores add
Extend(entry, add, col) ==
    [score |-> entry.score + add,
     alns |-> {<<Append(r[1], col[1]), Append(r[2], col[2])>> : r \in entry.alns}]

\* the best of the candidate entries, with every alignment that reaches it
Best(cands) ==
    LET live == {c \in cands : c.alns # {}} IN
    IF live = {} THEN Dead
    ELSE LET top == CHOOSE x \in {c.score : c \in live} :
                        \A c \in live : x >= c.score
         IN  [score |-> top,
              alns |-> UNION {c.alns : c \in {c \in live : c.score = top}}]

\* the three lattices at (i, j): M ends in a pair of characters, X in a gap in
\* seq2's row, Y in a gap in seq1's row; d opens a gap run and e extends it
Lattice(tab, i, j, seq1, seq2, s, d, e) ==
    IF i = 0 /\ j = 0
    THEN [M |-> [score |-> 0, alns |-> {<< <<>>, <<>> >>}], X |-> Dead, Y |-> Dead]
    ELSE [M |-> IF i > 0 /\ j > 0
                THEN LET c == tab[<<i - 1, j - 1>>]
                         col == <<seq1[i], seq2[j]>>
                     IN  Best({Extend(c.M, s[col], col), Extend(c.X, s[col], col),
                               Extend(c.Y, s[col], col)})
                ELSE Dead,
          X |-> IF i > 0
                THEN LET c == tab[<<i - 1, j>>]
                         col == <<seq1[i], Gap>>
                     IN  Best({Extend(c.M, d, col), Extend(c.Y, d, col),
                               Extend(c.X, e, col)})
                ELSE Dead,
          Y |-> IF j > 0
                THEN LET c == tab[<<i, j - 1>>]
                         col == <<Gap, seq2[j]>>
                     IN  Best({Extend(c.M, d, col), Extend(c.X, d, col),
                               Extend(c.Y, e, col)})
                ELSE Dead]

RECURSIVE Fill(_, _, _, _, _, _)
\* the lattices filled row by row, given the cells tab filled so far
Fill(tab, seq1, seq2, s, d, e) ==
    LET n == Cardinality(DOMAIN tab)
        w == Len(seq2) + 1
        i == n \div w
        j == n % w
    IN  IF i > Len(seq1) THEN tab
        ELSE Fill((<<i, j>> :> Lattice(tab, i, j, seq1, seq2, s, d, e)) @@ tab,
                  seq1, seq2, s, d, e)

\* dna_global_aln(seq1, seq2, s, d, e): the alignments of the best affine score
dna_global_aln(seq1, seq2, s, d, e) ==
    LET last == Fill(EmptyMap, seq1, seq2, s, d, e)[<<Len(seq1), Len(seq2)>>]
    IN  Best({last.M, last.X, last.Y}).alns

\* the short cut of bubble_aln is taken
ShortCut(bubble_indices_seq1, bubble_indices_seq2, prev_edge_read1, prev_edge_read2) ==
    /\ Len(bubble_indices_seq1) = 1
    /\ Len(bubble_indices_seq2) = 1
    /\ prev_edge_read1 = <<>>
    /\ prev_edge_read2 = <<>>

\* bubble_seq1_str and bubble_seq2_str of bubble_aln
BubbleStrs(bubble_indices_seq1, bubble_indices_seq2, prev_edge_read1, prev_edge_read2, prev_merge) ==
    << prev_merge \o prev_edge_read1 \o extract_bubble_seq(bubble_indices_seq1, 0),
       prev_merge \o prev_edge_read2 \o extract_bubble_seq(bubble_indices_seq2, 1) >>

\* the general path of bubble_aln: what dna_global_aln may return
GeneralPath(b1, b2, s, d, e, per1, per2, pm) ==
    LET strs == BubbleStrs(b1, b2, per1, per2, pm)
    IN  dna_global_aln(strs[1], strs[2], s, d, e)

\* the bubble at (1-based, odd) position p of expansion[i], with the node after it
Run(i, p) ==
    LET E == expansion[i] IN
    E[p].ids \o (IF p < Len(E) THEN E[p + 1].ids ELSE <<>>)

\* bubble_aln(bubble_indices_seq1, bubble_indices_seq2, s, d, e,
\*            prev_edge_read1, prev_edge_read2, prev_merge)
BubbleAln ==
    /\ pc = "done"
    /\ num_seq >= 2
    /\ aln = NoCall
    /\ \E p \in 1..Len(expansion[0]), s \in ScoringMatrices, g \in GapCosts,
          per1 \in {<<>>, <<"A">>}, per2 \in {<<>>, <<"A">>},
          pm \in {<<>>} \cup {<<c>> : c \in Alphabet} :
          /\ p % 2 = 1
          /\ p <= Len(expansion[1])
          /\ LET b1 == Run(0, p)
                 b2 == Run(1, p)
                 call == [called |-> TRUE,
                          bubble_indices_seq1 |-> b1, bubble_indices_seq2 |-> b2,
                          s |-> s, d |-> g[1], e |-> g[2],
                          prev_edge_read1 |-> per1, prev_edge_read2 |-> per2,
                          prev_merge |-> pm]
             IN  IF ShortCut(b1, b2, per1, per2)
                 THEN aln' = call @@ [short_cut |-> TRUE, ret |-> <<pm, pm>>]
                 ELSE \E r \in GeneralPath(b1, b2, s, g[1], g[2], per1, per2, pm) :
                         aln' = call @@ [short_cut |-> FALSE, ret |-> r]
    /\ UNCHANGED << inputs, graph, seq_node_idx, merge_node_idx,
                    seq_last_kmer_idx, expansion, pc, kmer_seqs, duplicate_kmer,
                    seq_idx, pos, edge_kmer, prev_idx, current_idx,
                    node_indices, multiple_duplicate >>

\* ------------------------------------------------------------- specification
Next ==
    \/ AddDebruijn
    \/ BeginSeq
    \/ LoopDuplicate
    \/ LoopFlushEdge
    \/ LoopPlain
    \/ EndSeq
    \/ ExtractBubble

Spec == Init /\ [][Next]_vars

\* the alignment of two short sequences, bubble by bubble
InitAln ==
    /\ Init
    /\ num_seq = 2
    /\ Len(sequences[0]) + Len(sequences[1]) <= MaxAlnLen

NextAln == Next \/ BubbleAln

SpecAln == InitAln /\ [][NextAln]_vars

\* ------------------------------------------------------------- properties
Done == pc = "done"
AfterBuild == pc \in {"extract", "done"}
Built == DOMAIN seq_node_idx
SeqIds == 0..(num_seq - 1)
IsMerge(n) == InList(n, merge_node_idx)
Last(list) == list[Len(list)]

\* C1: once every sequence is processed, merge_node_idx as a set is the
\* intersection of the node ids of all the paths seq_node_idx[i]
C1_MergeIsIntersection ==
    AfterBuild =>
        ListSet(merge_node_idx) =
            {n \in DOMAIN nodes : \A i \in SeqIds : InList(n, seq_node_idx[i])}

\* the node after node m on the path of sequence i
NextOnPath(i, m) ==
    LET path == seq_node_idx[i]
        p == CHOOSE q \in 1..Len(path) : path[q] = m
    IN  path[p + 1]

\* entry p of expansion[i] read as the claim reads it: a bubble with the node
\* after it through extract_bubble_seq, a merge node through read_from_kmer
PieceAsClaimed(i, p) ==
    IF expansion[i][p].is_list
    THEN extract_bubble_seq(Run(i, p), i)
    ELSE read_from_kmer(expansion[i][p].ids[1], i)

\* entry p of expansion[i], a merge node read together with the edge leaving it
PieceWithMergeEdge(i, p) ==
    IF expansion[i][p].is_list
    THEN extract_bubble_seq(Run(i, p), i)
    ELSE LET m == expansion[i][p].ids[1]
         IN  extract_bubble_seq(<<m, NextOnPath(i, m)>>, i)

RECURSIVE WalkAsClaimed(_, _)
WalkAsClaimed(i, p) ==
    IF p > Len(expansion[i]) THEN <<>>
    ELSE PieceAsClaimed(i, p) \o WalkAsClaimed(i, p + 1)

RECURSIVE WalkWithMergeEdges(_, _)
WalkWithMergeEdges(i, p) ==
    IF p > Len(expansion[i]) THEN <<>>
    ELSE PieceWithMergeEdge(i, p) \o WalkWithMergeEdges(i, p + 1)

\* C2 (as claimed): walking expansion[i], the bubbles read by
\* extract_bubble_seq and the merge nodes by read_from_kmer spell sequences[i]
C2_PathCoverageAsClaimed ==
    Done => \A i \in SeqIds : WalkAsClaimed(i, 1) = sequences[i]

\* C2 (amended): walking expansion[i], the bubbles read by extract_bubble_seq
\* and every merge node read with the edge that leaves it (extract_bubble_seq
\* of the merge node and the node after it) spell sequences[i]
C2_PathCoverage ==
    Done => \A i \in SeqIds : WalkWithMergeEdges(i, 1) = sequences[i]

\* a merge node whose edge to the end sentinel carries several duplicate k-mers
C2_Witness ==
    /\ Done
    /\ \E i \in SeqIds : \E p \in 1..Len(expansion[i]) :
          /\ ~expansion[i][p].is_list
          /\ LET m == expansion[i][p].ids[1]
                 edge == nodes[m].out_edges[i]
             IN  /\ nodes[edge.in_id].node_type = "end"
                 /\ Len(edge.duplicate_str) > k
                 /\ edge.multiple_duplicate
          /\ WalkWithMergeEdges(i, 1) = sequences[i]

Middle == {n \in DOMAIN nodes : nodes[n].node_type = "middle"}

\* C3: in every state no two middle nodes carry the same k-mer, and exist_kmer
\* maps exactly the middle k-mers, each to the id of the node that holds it
C3_NodeUniqueness ==
    /\ \A a, b \in Middle : nodes[a].kmer = nodes[b].kmer => a = b
    /\ DOMAIN exist_kmer = {nodes[n].kmer : n \in Middle}
    /\ \A n \in Middle : exist_kmer[nodes[n].kmer] = n

\* a k-mer that recurred in a second sequence and was given its first node again
C3_Witness ==
    \E n \in Middle :
        /\ nodes[n].count >= 2
        /\ Cardinality(DOMAIN nodes[n].out_edges) >= 2

RECURSIVE Flatten(_)
Flatten(entries) ==
    IF entries = <<>> THEN <<>> ELSE Head(entries).ids \o Flatten(Tail(entries))

\* the number of merge nodes on the path of sequence i
MergeCount(i) ==
    Cardinality({p \in 1..Len(seq_node_idx[i]) : IsMerge(seq_node_idx[i][p])})

\* C4: expansion[i] has 2m+1 entries for the m merge nodes on the path; the
\* entries at even (0-based) positions are lists of non-merge ids, those at odd
\* positions single merge ids; flattened they are the path; the last entry is
\* a list ending in the end sentinel of sequence i
C4_ExtractBubblePartition ==
    Done => \A i \in SeqIds :
        LET E == expansion[i]
            path == seq_node_idx[i]
        IN  /\ Len(E) = 2 * MergeCount(i) + 1
            /\ \A p \in 1..Len(E) :
                  IF (p - 1) % 2 = 0
                  THEN /\ E[p].is_list
                       /\ \A q \in 1..Len(E[p].ids) : ~IsMerge(E[p].ids[q])
                  ELSE /\ ~E[p].is_list
                       /\ Len(E[p].ids) = 1
                       /\ IsMerge(E[p].ids[1])
            /\ Flatten(E) = path
            /\ Last(E).is_list
            /\ Last(E).ids # <<>>
            /\ Last(Last(E).ids) = Last(path)
            /\ nodes[Last(Last(E).ids)].node_type = "end"

\* two sequences, one with a bubble between two merge nodes and one with an
\* empty bubble there
C4_Witness ==
    /\ Done
    /\ \E i, j \in SeqIds : \E p \in 2..(Len(expansion[i]) - 1) :
          /\ p <= Len(expansion[j]) - 1
          /\ expansion[i][p].is_list
          /\ expansion[i][p].ids # <<>>
          /\ expansion[j][p].is_list
          /\ expansion[j][p].ids = <<>>

\* C5: on every edge multiple_duplicate is true exactly when duplicate_str
\* holds more than one k-mer
C5_MultipleDuplicateFlag ==
    \A n \in DOMAIN nodes : \A s \in DOMAIN nodes[n].out_edges :
        nodes[n].out_edges[s].multiple_duplicate
            <=> (Len(nodes[n].out_edges[s].duplicate_str) > k)

\* bubble_aln was called with two runs of length 1 and no edge context
DegenerateCall ==
    /\ aln.called
    /\ Len(aln.bubble_indices_seq1) = 1
    /\ Len(aln.bubble_indices_seq2) = 1
    /\ aln.prev_edge_read1 = <<>>
    /\ aln.prev_edge_read2 = <<>>

\* what the general path of bubble_aln may return for the last call
GeneralOfCall ==
    GeneralPath(aln.bubble_indices_seq1, aln.bubble_indices_seq2, aln.s, aln.d,
                aln.e, aln.prev_edge_read1, aln.prev_edge_read2, aln.prev_merge)

\* C6 (as claimed): a degenerate call returns (prev_merge, prev_merge), and
\* that is what the general path would align, whatever the scores
C6_ShortCutAsClaimed ==
    DegenerateCall =>
        /\ aln.ret = <<aln.prev_merge, aln.prev_merge>>
        /\ aln.ret \in GeneralOfCall

\* prev_merge against itself scores more than, or less than, two gap openings
MatchBeatsGaps ==
    \A p \in 1..Len(aln.prev_merge) :
        aln.s[<<aln.prev_merge[p], aln.prev_merge[p]>>] > 2 * aln.d
GapsBeatMatch ==
    \E p \in 1..Len(aln.prev_merge) :
        aln.s[<<aln.prev_merge[p], aln.prev_merge[p]>>] < 2 * aln.d

\* C6 (amended): a degenerate call takes the short cut and returns
\* (prev_merge, prev_merge) whatever the scores; both runs read as the empty
\* string, so the general path would align prev_merge with prev_merge; its
\* result is the returned pair when the match score of prev_merge exceeds two
\* gap openings, and is not when two gap openings exceed the match score
C6_ShortCut ==
    DegenerateCall =>
        /\ aln.short_cut
        /\ aln.ret = <<aln.prev_merge, aln.prev_merge>>
        /\ extract_bubble_seq(aln.bubble_indices_seq1, 0) = <<>>
        /\ extract_bubble_seq(aln.bubble_indices_seq2, 1) = <<>>
        /\ BubbleStrs(aln.bubble_indices_seq1, aln.bubble_indices_seq2,
                      aln.prev_edge_read1, aln.prev_edge_read2, aln.prev_merge)
               = <<aln.prev_merge, aln.prev_merge>>
        /\ MatchBeatsGaps => GeneralOfCall = {aln.ret}
        /\ GapsBeatMatch => aln.ret \notin GeneralOfCall

\* a degenerate call on a merge node of both sequences, with a nucleotide as
\* prev_merge whose match score exceeds two gap openings
C6_Witness ==
    /\ DegenerateCall
    /\ aln.short_cut
    /\ aln.prev_merge # <<>>
    /\ MatchBeatsGaps
    /\ IsMerge(aln.bubble_indices_seq1[1])
    /\ aln.bubble_indices_seq1 = aln.bubble_indices_seq2

\* C7: the keys of nodes are 0..id_count-1 and each node's id is its key; the
\* path of every processed sequence starts at a start node and ends at an end
\* node that were allocated for it (after every node of the sequences before
\* it, the end node after every other node of its own path), that are on no
\* other path, and that are neither in exist_kmer nor in merge_node_idx
C7_SentinelsFresh ==
    /\ DOMAIN nodes = 0..(id_count - 1)
    /\ \A n \in DOMAIN nodes : nodes[n].id = n
    /\ \A i \in Built :
          LET path == seq_node_idx[i]
              st == path[1]
              en == Last(path)
          IN  /\ nodes[st].node_type = "start"
              /\ nodes[en].node_type = "end"
              /\ \A q \in 2..Len(path) : path[q] # st
              /\ \A q \in 1..(Len(path) - 1) : path[q] < en
              /\ \A j \in Built :
                    /\ j # i => ~InList(st, seq_node_idx[j]) /\ ~InList(en, seq_node_idx[j])
                    /\ j < i => \A q \in 1..Len(seq_node_idx[j]) : seq_node_idx[j][q] < st
              /\ \A km \in DOMAIN exist_kmer : exist_kmer[km] \notin {st, en}
              /\ ~IsMerge(st)
              /\ ~IsMerge(en)

\* all the sequences are processed, at least two, and they share a node
C7_Witness ==
    /\ Done
    /\ num_seq >= 2
    /\ merge_node_idx # <<>>
    /\ \A i \in SeqIds : Len(seq_node_idx[i]) >= 3

RECURSIVE TrailingRun(_)
\* the duplicate k-mers that end a list of k-mers
TrailingRun(kmers) ==
    IF kmers = <<>> \/ Last(kmers) \notin duplicate_kmer THEN <<>>
    ELSE Append(TrailingRun(SubSeq(kmers, 1, Len(kmers) - 1)), Last(kmers))

\* C8: for every processed sequence, seq_last_kmer_idx is -1 exactly when its
\* last k-mer is a duplicate, and then the edge into the end sentinel carries
\* the whole trailing duplicate run; otherwise it is the middle node of the last
\* k-mer and that edge carries nothing. When every k-mer is a duplicate the
\* path is the start sentinel and the end sentinel
C8_EndBookkeeping ==
    \A i \in Built :
        LET path == seq_node_idx[i]
            kmers == kmer_seqs[i]
            tail == path[Len(path) - 1]
            edge == nodes[tail].out_edges[i]
        IN  /\ edge.in_id = Last(path)
            /\ (seq_last_kmer_idx[i] = -1) <=> (Last(kmers) \in duplicate_kmer)
            /\ Last(kmers) \in duplicate_kmer =>
                  /\ edge.duplicate_str = Join(TrailingRun(kmers))
                  /\ edge.duplicate_str # <<>>
            /\ Last(kmers) \notin duplicate_kmer =>
                  /\ seq_last_kmer_idx[i] = tail
                  /\ nodes[tail].node_type = "middle"
                  /\ nodes[tail].kmer = Last(kmers)
                  /\ edge.duplicate_str = <<>>
            /\ (\A p \in 1..Len(kmers) : kmers[p] \in duplicate_kmer) =>
                  /\ Len(path) = 2
                  /\ nodes[tail].node_type = "start"

\* a sequence of duplicates only, and one that ends in a node after a duplicate
C8_Witness ==
    /\ \E i \in Built :
          /\ Len(seq_node_idx[i]) = 2
          /\ seq_last_kmer_idx[i] = -1
          /\ Len(kmer_seqs[i]) >= 2
    /\ \E i \in Built :
          /\ seq_last_kmer_idx[i] # -1
          /\ \E p \in 1..Len(kmer_seqs[i]) : kmer_seqs[i][p] \in duplicate_kmer

NoRepeat(list) == \A p, q \in 1..Len(list) : list[p] = list[q] => p = q

\* C9: no step changes the id, kmer or node_type of a node or replaces an edge
\* that a (tail node, sequence) pair has, and no node id occurs twice on the
\* path of a sequence, finished or under construction
C9_AppendOnly ==
    [][/\ \A n \in DOMAIN nodes :
             /\ n \in DOMAIN nodes'
             /\ nodes'[n].id = nodes[n].id
             /\ nodes'[n].kmer = nodes[n].kmer
             /\ nodes'[n].node_type = nodes[n].node_type
             /\ \A s \in DOMAIN nodes[n].out_edges :
                   /\ s \in DOMAIN nodes'[n].out_edges
                   /\ nodes'[n].out_edges[s] = nodes[n].out_edges[s]
       /\ NoRepeat(node_indices')
       /\ \A i \in DOMAIN seq_node_idx' : NoRepeat(seq_node_idx'[i])]_vars

\* a node that two sequences leave by their own edges, in a graph where some
\* k-mer recurs within a sequence
C9_Witness ==
    /\ duplicate_kmer # {}
    /\ \E n \in Middle : Cardinality(DOMAIN nodes[n].out_edges) >= 2
    /\ \E i \in Built : \E p \in 1..Len(kmer_seqs[i]) :
          kmer_seqs[i][p] \in duplicate_kmer

\* C10: for two sequences the expansions have the same number of entries and
\* the same merge node at every odd (0-based) position
C10_BubbleCorrespondence ==
    (Done /\ num_seq = 2) =>
        /\ Len(expansion[0]) = Len(expansion[1])
        /\ \A p \in 1..Len(expansion[0]) :
              (p - 1) % 2 = 1 => expansion[0][p] = expansion[1][p]

====
